---- MODULE Spec2Model ----
(***************************************************************************)
(* A model of DataTable (datatable.js): the row vector, the row closures   *)
(* (row.$), the nested ordered indexes and the operations of the table.    *)
(*                                                                         *)
(* JavaScript values are encoded as integers: a number is itself, null is  *)
(* NULL and undefined is UNDEF.  Objects live in a heap (objs); every      *)
(* reference to a row object is an object id, so that two references to    *)
(* the same object see the same fields.                                    *)
(***************************************************************************)
EXTENDS Integers, Sequences, FiniteSets, TLC

\* ------------------------------------------------------------------ bounds
MaxRows == 2
MaxBatch == 2
MaxHeld == 1
MaxIndexes == 2
MaxCalls == 3

\* ------------------------------------------------------- values of a cell
NULL == 98
UNDEF == 99
HOLE == 0
NOFN == 0

columnNames == <<"a", "b">>
ColSet == {columnNames[i] : i \in 1..Len(columnNames)}

\* the cell values the caller supplies for a column
CellVals(c) == IF c = "a" THEN {1, NULL, UNDEF} ELSE {0, 1}

\* l == null, for l a number, null or undefined
IsAbsent(v) == v = NULL \/ v = UNDEF

\* the abstract equality l == r of numbers, null and undefined
LooseEq(l, r) == l = r \/ (IsAbsent(l) /\ IsAbsent(r))

\* the relational l < r: null converts to 0, undefined to NaN (never less)
ToNumber(v) == IF v = NULL THEN 0 ELSE v
JsLess(l, r) == l # UNDEF /\ r # UNDEF /\ ToNumber(l) < ToNumber(r)

Comparator(l, r) ==
    IF LooseEq(l, r) THEN 0
    ELSE IF IsAbsent(l) \/ JsLess(r, l) THEN 1 ELSE -1

\* ------------------------------------------------------------------ state
VARIABLES
    objs,        \* heap: object id -> [vals, fn]; fn is the closure of its $ (NOFN: no $)
    cls,         \* closures of row.$: closure id -> [index, row, table, id]; table is
                 \* the table that made the row (self), id its self._.id
    rows,        \* this._.rows: object ids, HOLE for an array hole
    indicies,    \* this._.indicies: sequence of [columns, index]
    held,        \* the row objects the caller holds
    live,        \* this._.active is the no-op (TRUE) or the thrower (FALSE)
    paranoia,    \* this._.paranoia
    hostAny,     \* the host defines Array.prototype.any (Prototype does)
    sortGt,      \* Array.prototype.sort moves x before y on cmp(y, x) > 0 (else on cmp(x, y) < 0)
    verbose,     \* this._.verbose
    criteria,    \* the criteria of the query builder the caller holds (<<>>: none)
    last,        \* what the last call did
    audit        \* the rows inserted and removed so far

vars == <<objs, cls, rows, indicies, held, live, paranoia, verbose, criteria,
          hostAny, sortGt, last, audit>>

\* the host environment
env == <<hostAny, sortGt>>

\* --------------------------------------------------------------- utilities
Elems(s) == {s[i] : i \in 1..Len(s)}

RemoveAt(s, i) == SubSeq(s, 1, i - 1) \o SubSeq(s, i + 1, Len(s))

InsertAt(s, i, x) == SubSeq(s, 1, i - 1) \o <<x>> \o SubSeq(s, i, Len(s))

RECURSIVE SumSeq(_)
SumSeq(s) == IF s = <<>> THEN 0 ELSE Head(s) + SumSeq(Tail(s))

\* Array.prototype.sort on a short array, as an insertion sort; keys[i] is
\* the value the comparator plucks from element i.  The result is the
\* sequence of the positions of the elements in sorted order.
RECURSIVE SortInsert(_, _, _, _)
SortInsert(p, x, keys, gt) ==
    IF p = <<>> THEN <<x>>
    ELSE LET y == p[Len(p)]
             shift == IF gt THEN Comparator(keys[y], keys[x]) > 0
                            ELSE Comparator(keys[x], keys[y]) < 0
         IN IF shift
            THEN Append(SortInsert(SubSeq(p, 1, Len(p) - 1), x, keys, gt), y)
            ELSE Append(p, x)

RECURSIVE SortFrom(_, _, _, _)
SortFrom(p, i, keys, gt) ==
    IF i > Len(keys) THEN p
    ELSE SortFrom(SortInsert(p, i, keys, gt), i + 1, keys, gt)

sort(s, keys, gt) ==
    LET p == SortFrom(<<>>, 1, keys, gt) IN [i \in 1..Len(s) |-> s[p[i]]]

\* ------------------------------------------------------------ index: build
\* A row handed to an index is an item [oid, vals, fn]: the object, the
\* values of its cells and its $ at the time of the call.  A level of an
\* index is [e, total] with e the entries [value, size, subtotal, data];
\* the data of a leaf entry is the list of its rows.
EmptyLevel == [e |-> <<>>, total |-> 0]

RECURSIVE GroupRuns(_, _, _)
GroupRuns(sorted, columnName, acc) ==
    IF sorted = <<>> THEN acc
    ELSE LET r == Head(sorted)
             n == Len(acc)
         IN IF n > 0 /\ acc[n].value = r.vals[columnName]
            THEN GroupRuns(Tail(sorted), columnName,
                     [acc EXCEPT ![n].data = Append(@, r),
                                 ![n].size = @ + 1,
                                 ![n].subtotal = @ + 1])
            ELSE GroupRuns(Tail(sorted), columnName,
                     Append(acc, [value |-> r.vals[columnName],
                                  data |-> <<r>>,
                                  size |-> 1,
                                  subtotal |-> (IF n > 0 THEN acc[n].subtotal ELSE 0) + 1]))

buildShallowIndex(items, columnName) ==
    LET keys == [i \in 1..Len(items) |-> items[i].vals[columnName]]
        level(e) == [e |-> e, total |-> IF e = <<>> THEN 0 ELSE e[Len(e)].subtotal]
    IN level(GroupRuns(sort(items, keys, sortGt), columnName, <<>>))

RECURSIVE buildIndex(_, _)
buildIndex(items, columns) ==
    LET nested(index) ==
            IF Len(columns) > 1
            THEN [index EXCEPT !.e = [i \in 1..Len(index.e) |->
                     [index.e[i] EXCEPT !.data = buildIndex(@, Tail(columns))]]]
            ELSE index
    IN nested(buildShallowIndex(items, columns[1]))

\* the data of a right-side entry as it enters the left side: the row
\* objects themselves
RECURSIVE Adopt(_, _)
Adopt(data, depth) ==
    IF depth <= 1 THEN [i \in 1..Len(data) |-> data[i].oid]
    ELSE [data EXCEPT !.e = [i \in 1..Len(data.e) |->
             [data.e[i] EXCEPT !.data = Adopt(@, depth - 1)]]]

\* ------------------------------------------------------------ index: merge
\* rowsRemoved.mergeLeftAndRightEntries on row data: drop the left rows
\* whose $ is the $ of a right row
removeByIdentity(leftData, rightData) ==
    LET rightIdentity == {rightData[i].fn : i \in 1..Len(rightData)}
    IN SelectSeq(leftData, LAMBDA o : objs[o].fn \notin rightIdentity)

\* the walk of mergeIndex over one level, with the callbacks of rowsAdded
\* (adding) or of rowsRemoved; the result is the left entries and whether
\* the walk threw (the left side keeps what was done before the throw)
RECURSIVE mergeWalk(_, _, _, _, _, _)
RECURSIVE mergeIndex(_, _, _, _)
mergeWalk(left, right, l, r, depth, adding) ==
    IF l > Len(left) /\ r > Len(right) THEN [e |-> left, threw |-> FALSE]
    ELSE
    LET bothInBounds == l <= Len(left) /\ r <= Len(right)
        sign == IF adding THEN 1 ELSE -1
        mergeLeftAndRightEntries(sub) ==
            LET merged == [left[l] EXCEPT !.data = sub.lv,
                                          !.size = @ + sign * right[r].size,
                                          !.subtotal = @ + sign * right[r].subtotal]
            IN IF sub.threw
               THEN [e |-> [left EXCEPT ![l].data = sub.lv], threw |-> TRUE]
               ELSE IF merged.size = 0
               THEN mergeWalk(RemoveAt(left, l), right, l, r + 1, depth, adding)
               ELSE mergeWalk([left EXCEPT ![l] = merged], right, l + 1, r + 1, depth, adding)
    IN
    IF bothInBounds /\ LooseEq(left[l].value, right[r].value)
    THEN mergeLeftAndRightEntries(
             IF depth <= 1
             THEN [lv |-> IF adding THEN left[l].data \o Adopt(right[r].data, 1)
                          ELSE removeByIdentity(left[l].data, right[r].data),
                   threw |-> FALSE]
             ELSE mergeIndex(left[l].data, right[r].data, depth - 1, adding))
    ELSE IF (IF bothInBounds THEN JsLess(left[l].value, right[r].value) ELSE l <= Len(left))
    THEN \* processLeftSideEntry
         LET delta == IF r > 1 THEN right[r - 1].subtotal ELSE 0
         IN mergeWalk([left EXCEPT ![l].subtotal = @ + sign * delta],
                      right, l + 1, r, depth, adding)
    ELSE \* processRightSideEntry
         IF adding
         THEN LET newEntry == [value |-> right[r].value,
                               data |-> Adopt(right[r].data, depth),
                               size |-> right[r].size,
                               subtotal |-> right[r].size
                                   + (IF l > 1 THEN left[l - 1].subtotal ELSE 0)]
              IN mergeWalk(InsertAt(left, l, newEntry), right, l + 1, r + 1, depth, adding)
         ELSE [e |-> left, threw |-> TRUE]

mergeIndex(leftIndex, rightIndex, depth, adding) ==
    LET mergeTotals(w) ==
            IF w.threw THEN [lv |-> [leftIndex EXCEPT !.e = w.e], threw |-> TRUE]
            ELSE IF adding
            THEN [lv |-> [e |-> sort(w.e, [i \in 1..Len(w.e) |-> w.e[i].value], sortGt),
                          total |-> leftIndex.total + rightIndex.total],
                  threw |-> FALSE]
            ELSE [lv |-> [e |-> w.e, total |-> leftIndex.total - rightIndex.total],
                  threw |-> FALSE]
    IN mergeTotals(mergeWalk(leftIndex.e, rightIndex.e, 1, 1, depth, adding))

\* ix is an element of indicies
rowsAdded(ix, items) ==
    mergeIndex(ix.index, buildIndex(items, ix.columns), Len(ix.columns), TRUE)

rowsRemoved(ix, items) ==
    mergeIndex(ix.index, buildIndex(items, ix.columns), Len(ix.columns), FALSE)

\* --------------------------------------------------------- index: validate
\* DataTable.Index.prototype.validateIndex: TRUE when check() throws
RECURSIVE checkThrows(_, _)
checkThrows(index, ncols) ==
    LET n == Len(index.e)
        sizeOf(i) == index.e[i].size
        running(i) == SumSeq([j \in 1..i |-> sizeOf(j)])
        length(d) == IF ncols > 1 THEN Len(d.e) ELSE Len(d)
    IN \/ \E i \in 1..n :
            LET ix == index.e[i] IN
            \/ ix.size = 0
            \/ length(ix.data) = 0
            \/ length(ix.data) > ix.size
            \/ i > 1 /\ LooseEq(ix.value, index.e[i - 1].value)
            \/ i > 1 /\ JsLess(ix.value, index.e[i - 1].value)
            \/ running(i) # ix.subtotal
            \/ IF ncols > 1 THEN checkThrows(ix.data, ncols - 1)
               ELSE Len(ix.data) # ix.size
       \/ index.total # running(n)

\* DataTable.prototype.validateIndex over the indexes ixs
validateThrows(ixs) ==
    \E i \in 1..Len(ixs) : checkThrows(ixs[i].index, Len(ixs[i].columns))

\* -------------------------------------------------------------- the heap
\* the row objects in the leaf lists of an index, in order
RECURSIVE LeafSeq(_, _, _)
LeafSeq(level, ncols, i) ==
    IF i > Len(level.e) THEN <<>>
    ELSE (IF ncols > 1 THEN LeafSeq(level.e[i].data, ncols - 1, 1)
          ELSE level.e[i].data) \o LeafSeq(level, ncols, i + 1)

RECURSIVE IndexSeq(_, _)
IndexSeq(ixs, i) ==
    IF i > Len(ixs) THEN <<>>
    ELSE LeafSeq(ixs[i].index, Len(ixs[i].columns), 1) \o IndexSeq(ixs, i + 1)

RECURSIVE SetToSeq(_)
SetToSeq(S) ==
    IF S = {} THEN <<>>
    ELSE LET x == CHOOSE y \in S : \A z \in S : y <= z
         IN <<x>> \o SetToSeq(S \ {x})

RECURSIVE Dedup(_, _)
Dedup(s, acc) ==
    IF s = <<>> THEN acc
    ELSE Dedup(Tail(s), IF Head(s) \in Elems(acc) THEN acc ELSE Append(acc, Head(s)))

PosIn(s, x) == CHOOSE i \in 1..Len(s) : s[i] = x

RECURSIVE Renamed(_, _, _)
Renamed(level, ncols, order) ==
    [level EXCEPT !.e = [i \in 1..Len(level.e) |->
        [level.e[i] EXCEPT !.data =
            IF ncols > 1 THEN Renamed(level.e[i].data, ncols - 1, order)
            ELSE [j \in 1..Len(level.e[i].data) |-> PosIn(order, level.e[i].data[j])]]]]

\* The heap h and the closures c once the objects no one refers to are
\* collected. Objects and closures have no address the program can read, so
\* they are numbered in the order in which the table and the caller reach them.
Collect(h, c, rws, ixs, hld) ==
    LET numbered(fns, order) ==
            [objs |-> [i \in 1..Len(order) |->
                          [vals |-> h[order[i]].vals,
                           fn |-> IF h[order[i]].fn = NOFN THEN NOFN
                                  ELSE PosIn(fns, h[order[i]].fn)]],
             cls |-> [j \in 1..Len(fns) |->
                         [c[fns[j]] EXCEPT !.row = PosIn(order, c[fns[j]].row)]],
             rows |-> [i \in 1..Len(rws) |->
                          IF rws[i] = HOLE THEN HOLE ELSE PosIn(order, rws[i])],
             indicies |-> [i \in 1..Len(ixs) |->
                              [ixs[i] EXCEPT !.index = Renamed(@, Len(ixs[i].columns), order)]],
             held |-> {PosIn(order, o) : o \in hld}]
        reached(direct, fns) ==
            numbered(fns, Dedup(direct \o [j \in 1..Len(fns) |-> c[fns[j]].row], <<>>))
        referred(direct) ==
            reached(direct, Dedup(SelectSeq([i \in 1..Len(direct) |-> h[direct[i]].fn],
                                            LAMBDA k : k # NOFN), <<>>))
    IN referred(Dedup(SelectSeq(rws, LAMBDA o : o # HOLE) \o IndexSeq(ixs, 1)
                        \o SetToSeq(hld), <<>>))

\* the heap after a call or a step of the caller
Heap(h, c, rws, ixs, hld) ==
    LET becomes(n) ==
            /\ objs' = n.objs
            /\ cls' = n.cls
            /\ rows' = n.rows
            /\ indicies' = n.indicies
            /\ held' = n.held
    IN becomes(Collect(h, c, rws, ixs, hld))

\* a[i] = x on a JavaScript array, i counted from 0
ArraySet(a, i, x) ==
    IF i < Len(a) THEN [a EXCEPT ![i + 1] = x]
    ELSE a \o [j \in 1..(i - Len(a)) |-> HOLE] \o <<x>>

\* r.$(): a fresh clone of the canonical row behind the closure k
Snapshot(k) == [oid |-> HOLE, vals |-> objs[cls[k].row].vals, fn |-> k]

\* the row object o as the caller passes it
Passed(o) == [oid |-> o, vals |-> objs[o].vals, fn |-> objs[o].fn]

\* the rows given to insert: every value of column a, one value of column b
Rows == {r \in [ColSet -> {0, 1, NULL, UNDEF}] : r.a \in CellVals("a") /\ r.b = 0}

\* the counters after a call that inserted ins rows and removed rem rows
Counted(ins, rem) ==
    [calls |-> audit.calls + 1, inserted |-> audit.inserted + ins,
     removed |-> audit.removed + rem]

Done(op, threw, touched) ==
    [op |-> op, threw |-> threw, touched |-> touched, changed |-> {}, n |-> 0]

\* ------------------------------------------------------------------ Init
Init ==
    /\ objs = <<>>
    /\ cls = <<>>
    /\ rows = <<>>
    /\ indicies = <<>>
    /\ held = {}
    /\ live = TRUE
    /\ paranoia = FALSE
    /\ verbose = FALSE
    /\ criteria = <<>>
    /\ hostAny \in BOOLEAN
    /\ sortGt \in BOOLEAN
    /\ last = Done("new", FALSE, {})
    /\ audit = [calls |-> 0, inserted |-> 0, removed |-> 0]

\* ------------------------------------------------------------ identity
\* this._.id of the table: "table-" and the time of its construction, in
\* milliseconds; another table was made at the same time or before
id == 1
OtherIds == {0, 1}

\* checkTableIdentity(self, r.$(ROW_META_DATA.TABLE_ID)) for a row whose $ is
\* the closure k: TRUE when it throws. tablesIdentities holds one token for
\* each id, so the tokens differ exactly when the ids do.
checkTableIdentity(k) == cls[k].id # id

\* ---------------------------------------------------------------- insert
\* insert(rs) for a list rs of new row objects (none carries a $)
insert(rs) ==
    /\ Len(rows) + Len(rs) <= MaxRows
    /\ audit.calls < MaxCalls
    /\ IF ~live
       THEN /\ last' = Done("insert", TRUE, {})
            /\ audit' = Counted(0, 0)
            /\ UNCHANGED <<objs, cls, rows, indicies, held>>
       ELSE LET n == Len(rs)
                oids == [i \in 1..n |-> Len(objs) + i]
                fns == [i \in 1..n |-> Len(cls) + i]
                objs1 == objs \o [i \in 1..n |-> [vals |-> rs[i], fn |-> fns[i]]]
                cls1 == cls \o [i \in 1..n |->
                                   [index |-> Len(rows) + i - 1, row |-> oids[i],
                                    table |-> "this", id |-> id]]
                result == [i \in 1..n |-> [oid |-> oids[i], vals |-> rs[i], fn |-> fns[i]]]
                inserted(ixs1) ==
                    /\ Heap(objs1, cls1, rows \o oids, ixs1, held)
                    /\ last' = [Done("insert", paranoia /\ validateThrows(ixs1),
                                     1..Len(indicies)) EXCEPT !.n = n]
                    /\ audit' = Counted(n, 0)
            IN inserted([i \in 1..Len(indicies) |->
                            [indicies[i] EXCEPT !.index = rowsAdded(indicies[i], result).lv]])
    /\ UNCHANGED <<live, paranoia, verbose, criteria, env>>

\* insert([o] concat rs) for a row object o the caller holds that carries a
\* $, and new row objects rs. collect leaves undefined in result at the place
\* of o and pushes the others to the row vector; the first index then reads a
\* column of undefined in buildShallowIndex, before it merges anything, and
\* without an index result.collect(this._.clone) reads undefined.$
insertAgain(o, rs) ==
    /\ o \in held
    /\ objs[o].fn # NOFN
    /\ Len(rows) + Len(rs) <= MaxRows
    /\ audit.calls < MaxCalls
    /\ IF ~live
       THEN /\ last' = Done("insert", TRUE, {})
            /\ audit' = Counted(0, 0)
            /\ UNCHANGED <<objs, cls, rows, indicies, held>>
       ELSE LET n == Len(rs)
                oids == [i \in 1..n |-> Len(objs) + i]
                fns == [i \in 1..n |-> Len(cls) + i]
                objs1 == objs \o [i \in 1..n |-> [vals |-> rs[i], fn |-> fns[i]]]
                cls1 == cls \o [i \in 1..n |->
                                   [index |-> Len(rows) + i - 1, row |-> oids[i],
                                    table |-> "this", id |-> id]]
            IN /\ Heap(objs1, cls1, rows \o oids, indicies, held)
               /\ last' = [Done("insert", TRUE, {}) EXCEPT !.n = n]
               /\ audit' = Counted(n, 0)
    /\ UNCHANGED <<live, paranoia, verbose, criteria, env>>

\* ----------------------------------------------------------------- index
IndexColumns == {<<"a">>, <<"b">>, <<"a", "b">>}

\* Array.prototype.join
RECURSIVE join(_, _)
join(s, separator) ==
    IF s = <<>> THEN ""
    ELSE IF Len(s) = 1 THEN s[1]
    ELSE s[1] \o separator \o join(Tail(s), separator)

buildIndexSignature(columns) == "[" \o join(columns, ",") \o "]"

\* a find that never finds
findNone(ixs, signature) == 0

\* this._.indicies.find(function(ix) { return ix.signature == signature; }):
\* the place of the index found, 0 when there is none
find(ixs, signature) ==
    IF \E i \in 1..Len(ixs) : buildIndexSignature(ixs[i].columns) = signature
    THEN CHOOSE i \in 1..Len(ixs) :
             /\ buildIndexSignature(ixs[i].columns) = signature
             /\ \A j \in 1..(i - 1) : buildIndexSignature(ixs[j].columns) # signature
    ELSE 0

\* index(columns) with a valid column list
index(columns) ==
    /\ audit.calls < MaxCalls
    /\ audit' = Counted(0, 0)
    /\ IF ~live
       THEN /\ last' = Done("index", TRUE, {})
            /\ UNCHANGED indicies
       ELSE IF find(indicies, buildIndexSignature(columns)) # 0
       THEN /\ last' = Done("index", FALSE, {})
            /\ UNCHANGED indicies
       ELSE /\ Len(indicies) < MaxIndexes
            /\ IF HOLE \in Elems(rows)
               THEN /\ last' = Done("index", TRUE, {})
                    /\ UNCHANGED indicies
               ELSE LET ix == [columns |-> columns, index |-> EmptyLevel]
                        items == [i \in 1..Len(rows) |-> Passed(rows[i])]
                    IN /\ indicies' = Append(indicies,
                                          [ix EXCEPT !.index = rowsAdded(ix, items).lv])
                       /\ last' = Done("index", FALSE, {Len(indicies) + 1})
    /\ UNCHANGED <<objs, cls, rows, held, live, paranoia, verbose, criteria, env>>

\* ---------------------------------------------------------------- remove
\* A row object passed to remove is one the caller holds ([h |-> object])
\* or a clone it has just taken from getRows() ([p |-> position]).
HeldArg(o) == [h |-> o, p |-> 0]
FreshArg(p) == [h |-> HOLE, p |-> p]
FnOf(arg) == IF arg.h # HOLE THEN objs[arg.h].fn ELSE objs[rows[arg.p + 1]].fn

\* the closure k belongs to a row that is in the row vector
InTable(k) ==
    /\ k \in DOMAIN cls
    /\ cls[k].index < Len(rows)
    /\ rows[cls[k].index + 1] = cls[k].row

RECURSIVE eachRowsRemoved(_, _, _)
eachRowsRemoved(ixs, i, items) ==
    IF i > Len(ixs) THEN [ixs |-> ixs, threw |-> FALSE]
    ELSE LET removed(m) ==
                 IF m.threw THEN [ixs |-> [ixs EXCEPT ![i].index = m.lv], threw |-> TRUE]
                 ELSE eachRowsRemoved([ixs EXCEPT ![i].index = m.lv], i + 1, items)
         IN removed(rowsRemoved(ixs[i], items))

\* the loop of remove over origRows: fns[i] is the $ of origRows[i]
RECURSIVE swapRemove(_, _, _, _)
swapRemove(rws, cl, fns, i) ==
    IF i > Len(fns) THEN [rows |-> rws, cls |-> cl, threw |-> FALSE]
    ELSE IF Len(rws) > 1
    THEN LET lastRow == rws[Len(rws)]
             indexToOverwrite == cl[fns[i]].index
             rws1 == ArraySet(rws, indexToOverwrite, lastRow)
         IN IF lastRow = HOLE
            THEN [rows |-> rws1, cls |-> cl, threw |-> TRUE]
            ELSE swapRemove(SubSeq(rws1, 1, Len(rws1) - 1),
                            [cl EXCEPT ![objs[lastRow].fn].index = indexToOverwrite],
                            fns, i + 1)
    ELSE IF Len(rws) = 1 THEN swapRemove(<<>>, cl, fns, i + 1)
    ELSE [rows |-> rws, cls |-> cl, threw |-> TRUE]

\* remove(args) for any row objects, those of rows no longer in the table
\* and the same one twice included
removeAny(args) ==
    /\ audit.calls < MaxCalls
    /\ \A i \in 1..Len(args) :
          IF args[i].h # HOLE THEN args[i].h \in held
          ELSE live /\ HOLE \notin Elems(rows) /\ args[i].p < Len(rows)
    /\ IF \/ ~live
          \/ \E i \in 1..Len(args) : FnOf(args[i]) = NOFN \/ checkTableIdentity(FnOf(args[i]))
       THEN /\ last' = Done("remove", TRUE, {})
            /\ audit' = Counted(0, 0)
            /\ UNCHANGED <<objs, cls, rows, indicies, held>>
       ELSE LET fns == [i \in 1..Len(args) |-> FnOf(args[i])]
                origRows == [i \in 1..Len(args) |-> Snapshot(fns[i])]
                passed == {args[i].h : i \in 1..Len(args)} \ {HOLE}
                objs1 == [o \in DOMAIN objs |->
                             IF o \in passed THEN [objs[o] EXCEPT !.fn = NOFN] ELSE objs[o]]
                removed(rr, sw) ==
                    IF rr.threw
                    THEN /\ Heap(objs, cls, rows, rr.ixs, held)
                         /\ last' = Done("remove", TRUE, 1..Len(indicies))
                         /\ audit' = Counted(0, 0)
                    ELSE IF sw.threw
                    THEN /\ Heap(objs, sw.cls, sw.rows, rr.ixs, held)
                         /\ last' = Done("remove", TRUE, 1..Len(indicies))
                         /\ audit' = Counted(0, 0)
                    ELSE /\ Heap(objs1, sw.cls, sw.rows, rr.ixs, held)
                         /\ last' = Done("remove", paranoia /\ validateThrows(rr.ixs),
                                         1..Len(indicies))
                         /\ audit' = Counted(0, Len(args))
            IN removed(eachRowsRemoved(indicies, 1, origRows), swapRemove(rows, cls, fns, 1))
    /\ UNCHANGED <<live, paranoia, verbose, criteria, env>>

\* remove(args) for clones of distinct rows of the table, or rows of another
\* table
remove(args) ==
    /\ \A i \in 1..Len(args) :
          IF args[i].h # HOLE
          THEN /\ args[i].h \in held
               /\ \/ InTable(objs[args[i].h].fn)
                  \/ objs[args[i].h].fn # NOFN /\ checkTableIdentity(objs[args[i].h].fn)
          ELSE live /\ HOLE \notin Elems(rows) /\ args[i].p < Len(rows)
    /\ \A i, j \in 1..Len(args) : i # j => FnOf(args[i]) # FnOf(args[j])
    /\ removeAny(args)

\* ---------------------------------------------------------------- update
\* markChangedColumns(r, r.$(), mark) for the row object o
changedColumnsOf(o) ==
    {c \in ColSet : objs[o].vals[c] # objs[cls[objs[o].fn].row].vals[c]}

\* the loop of update over the indexes: oldRows and newRows are the items
\* removed and added, changed the names of the changed columns
RECURSIVE eachReindexed(_, _, _, _, _, _)
eachReindexed(ixs, i, oldRows, newRows, changed, touched) ==
    IF i > Len(ixs) THEN [ixs |-> ixs, threw |-> FALSE, touched |-> touched]
    ELSE IF ~hostAny THEN [ixs |-> ixs, threw |-> TRUE, touched |-> touched]
    ELSE IF Elems(ixs[i].columns) \cap changed = {}
    THEN eachReindexed(ixs, i + 1, oldRows, newRows, changed, touched)
    ELSE LET n == Len(ixs[i].columns)
             stopped(ix) == [ixs |-> [ixs EXCEPT ![i] = ix], threw |-> TRUE,
                             touched |-> touched \cup {i}]
             added(ix2) ==
                 IF paranoia /\ checkThrows(ix2.index, n) THEN stopped(ix2)
                 ELSE eachReindexed([ixs EXCEPT ![i] = ix2], i + 1, oldRows, newRows,
                                    changed, touched \cup {i})
             removed(threw, ix1) ==
                 IF threw \/ (paranoia /\ checkThrows(ix1.index, n)) THEN stopped(ix1)
                 ELSE added([ix1 EXCEPT !.index = rowsAdded(ix1, newRows).lv])
             reindexed(rm) == removed(rm.threw, [ixs[i] EXCEPT !.index = rm.lv])
         IN reindexed(rowsRemoved(ixs[i], oldRows))

\* the last loop of update: a new canonical row for each changed row
RECURSIVE overwriteRows(_, _, _, _, _)
overwriteRows(h, cl, rws, rs, i) ==
    IF i > Len(rs) THEN [objs |-> h, cls |-> cl, rows |-> rws]
    ELSE LET newRow == Len(h) + 1
             k == h[rs[i]].fn
             h1 == Append(h, [vals |-> h[rs[i]].vals, fn |-> k])
         IN overwriteRows(h1, [cl EXCEPT ![k].row = newRow],
                          ArraySet(rws, cl[k].index, newRow), rs, i + 1)

update(args) ==
    /\ Elems(args) \subseteq held
    /\ audit.calls < MaxCalls
    /\ IF \/ ~live
          \/ \E i \in 1..Len(args) :
                objs[args[i]].fn = NOFN \/ checkTableIdentity(objs[args[i]].fn)
       THEN /\ last' = Done("update", TRUE, {})
            /\ UNCHANGED <<objs, cls, rows, indicies, held>>
       ELSE LET rs == SelectSeq(args, LAMBDA o : changedColumnsOf(o) # {})
                changedColumns == UNION {changedColumnsOf(args[i]) : i \in 1..Len(args)}
                oldRows == [i \in 1..Len(rs) |-> Snapshot(objs[rs[i]].fn)]
                newRows == [i \in 1..Len(rs) |-> Passed(rs[i])]
                overwritten(ixs, ow) == Heap(ow.objs, ow.cls, ow.rows, ixs, held)
                reindexed(re) ==
                    /\ IF re.threw THEN Heap(objs, cls, rows, re.ixs, held)
                       ELSE overwritten(re.ixs, overwriteRows(objs, cls, rows, rs, 1))
                    /\ last' = [Done("update", re.threw, re.touched)
                                   EXCEPT !.changed = changedColumns]
            IN IF rs = <<>>
               THEN /\ last' = Done("update", FALSE, {})
                    /\ UNCHANGED <<objs, cls, rows, indicies, held>>
               ELSE reindexed(eachReindexed(indicies, 1, oldRows, newRows, changedColumns, {}))
    /\ audit' = Counted(0, 0)
    /\ UNCHANGED <<live, paranoia, verbose, criteria, env>>

\* --------------------------------------------------------------- getRows
\* getRows(), of which the caller keeps the clone at position p
getRows(p) ==
    /\ p < Len(rows)
    /\ Cardinality(held) < MaxHeld
    /\ IF ~live \/ HOLE \in Elems(rows)
       THEN /\ last' = Done("getRows", TRUE, {})
            /\ UNCHANGED <<objs, cls, rows, indicies, held>>
       ELSE LET c == Len(objs) + 1
            IN /\ Heap(Append(objs, objs[rows[p + 1]]), cls, rows, indicies, held \cup {c})
               /\ last' = Done("getRows", FALSE, {})
    /\ UNCHANGED <<live, paranoia, verbose, criteria, env, audit>>

OtherRow == [a |-> 0, b |-> 0]

\* other.getRows() on another table that holds one row, made with the id t:
\* the caller keeps the clone
otherGetRows(t) ==
    /\ Cardinality(held) < MaxHeld
    /\ \A k \in DOMAIN cls : cls[k].table = "other" => cls[k].id = t
    /\ LET row == Len(objs) + 1
           c == Len(objs) + 2
           k == Len(cls) + 1
           made == [vals |-> OtherRow, fn |-> k]
       IN Heap(objs \o <<made, made>>,
               Append(cls, [index |-> 0, row |-> row, table |-> "other", id |-> t]),
               rows, indicies, held \cup {c})
    /\ last' = Done("other.getRows", FALSE, {})
    /\ UNCHANGED <<live, paranoia, verbose, criteria, env, audit>>

\* o.$() on a row object the caller holds; the caller keeps the result in
\* place of o
accessor(o) ==
    /\ o \in held
    /\ IF objs[o].fn = NOFN \/ ~live
       THEN /\ last' = Done("$", TRUE, {})
            /\ UNCHANGED <<objs, cls, rows, indicies, held>>
       ELSE LET k == objs[o].fn
                c == Len(objs) + 1
                objs1 == Append(objs, [vals |-> objs[cls[k].row].vals, fn |-> k])
            IN /\ Heap(objs1, cls, rows, indicies, (held \ {o}) \cup {c})
               /\ last' = Done("$", FALSE, {})
    /\ UNCHANGED <<live, paranoia, verbose, criteria, env, audit>>

\* ------------------------------------------------------------ the caller
\* the caller assigns v to the field c of a row object it holds
assign(o, c, v) ==
    /\ o \in held
    /\ objs[o].vals[c] # v
    /\ objs' = [objs EXCEPT ![o].vals[c] = v]
    /\ last' = Done("caller", FALSE, {})
    /\ UNCHANGED <<cls, rows, indicies, held, live, paranoia, verbose, criteria, env, audit>>

\* the caller lets go of a row object
release(o) ==
    /\ o \in held
    /\ Heap(objs, cls, rows, indicies, held \ {o})
    /\ last' = Done("caller", FALSE, {})
    /\ UNCHANGED <<live, paranoia, verbose, criteria, env, audit>>

SeqsUpTo(S, n) == UNION {[1..k -> S] : k \in 1..n}

RemoveArgs == {HeldArg(o) : o \in held} \cup {FreshArg(p) : p \in 0..(MaxRows - 1)}

Next ==
    \/ \E rs \in SeqsUpTo(Rows, MaxBatch) : insert(rs)
    \/ \E columns \in IndexColumns : index(columns)
    \/ \E args \in SeqsUpTo(RemoveArgs, MaxBatch) : remove(args)
    \/ \E args \in SeqsUpTo(held, MaxBatch) : update(args)
    \/ \E p \in 0..(MaxRows - 1) : getRows(p)
    \/ \E o \in held : accessor(o)
    \/ \E o \in held, c \in ColSet : \E v \in CellVals(c) : assign(o, c, v)
    \/ \E o \in held : release(o)

Spec == Init /\ [][Next]_vars

\* ================================================================ queries
\* A criterion {columnName, operator, value}: value is a cell value, for
\* "in" the list values, for "between" the Range start..end.
Criterion(c, op, v) ==
    [columnName |-> c, operator |-> op, value |-> v, values |-> <<>>, start |-> 0, end |-> 0]
InList(c, vs) ==
    [columnName |-> c, operator |-> "in", value |-> 0, values |-> vs, start |-> 0, end |-> 0]
Between(c, b, e) ==
    [columnName |-> c, operator |-> "between", value |-> 0, values |-> <<>>,
     start |-> b, end |-> e]

Min(x, y) == IF x < y THEN x ELSE y
Max(x, y) == IF x < y THEN y ELSE x

\* Positions in an index are whole or half numbers: a position is kept as
\* twice its value. ToInteger2 is the whole number slice() makes of one.
ToInteger2(x2) == IF x2 >= 0 THEN x2 \div 2 ELSE -((-x2) \div 2)

\* a slice that takes everything
sliceAll(s, begin, end) == s

\* Array.prototype.slice(begin, end) on the sequence s
slice(s, begin, end) ==
    LET rel(k) == IF k < 0 THEN Max(Len(s) + k, 0) ELSE Min(k, Len(s))
    IN IF rel(begin) < rel(end) THEN SubSeq(s, rel(begin) + 1, rel(end)) ELSE <<>>

\* a loop that does not run
bisectNot(entries, value, l, r) == r

\* the loop of binarySearch
RECURSIVE bisect(_, _, _, _)
bisect(entries, value, l, r) ==
    IF r - l > 1
    THEN LET m == (r + l) \div 2
         IN IF Comparator(entries[m + 1].value, value) < 0
            THEN bisect(entries, value, m, r) ELSE bisect(entries, value, l, m)
    ELSE r

\* binarySearch(index, value, compareValues) with the default bounds; the
\* result is twice the position
binarySearch(entries, value) ==
    LET uBound == Len(entries)
        bounded(result) ==
            IF result < 0 THEN -2
            ELSE IF result > 2 * (uBound - 1) THEN 2 * uBound ELSE result
        located(r) ==
            bounded(IF r < Len(entries) /\ Comparator(entries[r + 1].value, value) = 0
                    THEN 2 * r ELSE 2 * r - 1)
    IN located(bisect(entries, value, -1, uBound))

\* getIndexEntry(value, beforeOrAfter) on the sequence subindex:
\* foundExactMatch, matchedIndex (twice) and the entry returned
getIndexEntry(subindex, value, beforeOrAfter) ==
    LET none(i) == [value |-> UNDEF, data |-> <<>>, size |-> 0,
                    subtotal |-> IF i < 0 THEN 0 ELSE subindex.total]
        at(i) == i + beforeOrAfter
        entryAt(i) ==
            IF i % 2 = 0 /\ i >= 0 /\ i < 2 * Len(subindex.e)
            THEN [foundExactMatch |-> TRUE, matchedIndex |-> i,
                  entry |-> subindex.e[i \div 2 + 1]]
            ELSE [foundExactMatch |-> FALSE, matchedIndex |-> at(i),
                  entry |-> IF at(i) % 2 = 0 /\ at(i) >= 0 /\ at(i) < 2 * Len(subindex.e)
                            THEN subindex.e[at(i) \div 2 + 1] ELSE none(i)]
    IN entryAt(binarySearch(subindex.e, value))
matchExact == 0
matchBefore == -1
matchAfter == 1

\* ary.uniq
RECURSIVE uniq(_, _)
uniq(s, acc) ==
    IF s = <<>> THEN acc
    ELSE uniq(Tail(s), IF Head(s) \in Elems(acc) THEN acc ELSE Append(acc, Head(s)))

\* the entries reduce() finds in one sequence for one criterion
RECURSIVE foundIn(_, _, _)
foundIn(subindex, values, i) ==
    IF i > Len(values) THEN <<>>
    ELSE LET hit(g) == IF g.foundExactMatch THEN <<g.entry>> ELSE <<>>
         IN hit(getIndexEntry(subindex, values[i], matchExact))
              \o foundIn(subindex, values, i + 1)

found(subindex, criterion) ==
    LET e == subindex.e
        n == Len(e)
        op == criterion.operator
        g(v, ba) == getIndexEntry(subindex, v, ba)
        eq(x) == IF x.foundExactMatch THEN <<x.entry>> ELSE <<>>
        ne(x) == IF ~x.foundExactMatch
                 THEN slice(e, 0, ToInteger2(x.matchedIndex))
                        \o slice(e, ToInteger2(x.matchedIndex + 2), n)
                 ELSE e
        le(x) == IF x.matchedIndex >= 0
                 THEN slice(e, 0, ToInteger2(x.matchedIndex + 2)) ELSE <<>>
        lt(x) == IF x.matchedIndex >= 0
                 THEN slice(e, 0, ToInteger2(x.matchedIndex
                                               + (IF x.foundExactMatch THEN 0 ELSE 2)))
                 ELSE <<>>
        ge(x) == slice(e, ToInteger2(Max(0, x.matchedIndex)), n)
        gt(x) == slice(e, ToInteger2(x.matchedIndex + (IF x.foundExactMatch THEN 2 ELSE 0)), n)
        between(x, y) ==
            slice(e, ToInteger2(Max(0, x.matchedIndex)),
                  ToInteger2(y.matchedIndex + (IF y.foundExactMatch THEN 2 ELSE 0)))
    IN IF op = "==" THEN eq(g(criterion.value, matchExact))
       ELSE IF op = "!=" THEN ne(g(criterion.value, matchExact))
       ELSE IF op = "<=" THEN le(g(criterion.value, matchBefore))
       ELSE IF op = "<" THEN lt(g(criterion.value, matchBefore))
       ELSE IF op = ">=" THEN ge(g(criterion.value, matchAfter))
       ELSE IF op = ">" THEN gt(g(criterion.value, matchAfter))
       ELSE IF op = "between"
       THEN between(g(criterion.start, matchAfter), g(criterion.end, matchAfter))
       ELSE foundIn(subindex, uniq(criterion.values, <<>>), 1)

\* the positions in the criteria crit of those computeCost uses for the index
\* ix: for each column in turn the first criterion on it, until a column has
\* none
RECURSIVE criteriaUsed(_, _, _)
criteriaUsed(ix, crit, j) ==
    IF j > Len(ix.columns) THEN <<>>
    ELSE LET on == {k \in 1..Len(crit) : crit[k].columnName = ix.columns[j]}
         IN IF on = {} THEN <<>>
            ELSE <<CHOOSE k \in on : \A k2 \in on : k <= k2>>
                   \o criteriaUsed(ix, crit, j + 1)

\* criteriaUnused.without(criterion) for every criterion used
RECURSIVE without(_, _, _)
without(crit, used, k) ==
    IF k > Len(crit) THEN <<>>
    ELSE (IF k \in used THEN <<>> ELSE <<crit[k]>>) \o without(crit, used, k + 1)

criteriaUnusedNone(ix, crit) == <<>>
criteriaUnused(ix, crit) == without(crit, Elems(criteriaUsed(ix, crit, 1)), 1)

\* data.inject([], function(buffer, d) { return buffer.concat(d.data); })
RECURSIVE concatData(_, _, _)
concatData(data, leaf, i) ==
    IF i > Len(data) THEN <<>>
    ELSE (IF leaf THEN data[i].data ELSE data[i].data.e) \o concatData(data, leaf, i + 1)

\* the entries found for one criterion in the sequences of the entries data
RECURSIVE foundAll(_, _, _)
foundAll(data, criterion, i) ==
    IF i > Len(data) THEN <<>>
    ELSE found(data[i].data, criterion) \o foundAll(data, criterion, i + 1)

\* the loop of reduce over criteriaUsed; data are entries of column depth
RECURSIVE reduceUsed(_, _, _, _)
reduceUsed(data, crit, used, j) ==
    IF j > Len(used) THEN data
    ELSE reduceUsed(foundAll(data, crit[used[j]], 1), crit, used, j + 1)

\* the last loop of reduce: from the entries of column depth to the rows
RECURSIVE flatten(_, _, _)
flatten(data, depth, ncols) ==
    IF depth = ncols THEN concatData(data, TRUE, 1)
    ELSE flatten(concatData(data, FALSE, 1), depth + 1, ncols)

\* computeCost(criteria).reduce() of the index ix: the row objects
reduce(ix, crit) ==
    LET used == criteriaUsed(ix, crit, 1)
    IN flatten(reduceUsed(<<[data |-> ix.index]>>, crit, used, 1),
               Len(used), Len(ix.columns))

\* what bind(f, ctx)(v) returns when f(v) returns result: f itself is
\* returned for ctx == null, otherwise a function that returns nothing
bind(result, ctx) == IF ctx = NULL THEN result ELSE FALSE

\* v >= begin && v <= end of Range, l == r in Set.prototype.indexOf
JsGe(l, r) == l # UNDEF /\ r # UNDEF /\ ToNumber(l) >= ToNumber(r)
SomeObject == 1

\* new DataTable.Range(begin, end, exclusive): the constructor has the two
\* parameters begin and end, a third argument is dropped
Range(begin, end, exclusive) == [start |-> begin, end |-> end]

\* range.include(v) and range.length
RangeInclude(range, v) == JsGe(v, range.start) /\ JsGe(range.end, v)
RangeLength(range) == range.end - range.start + 1

\* include(row[criterion.columnName]) for a criterion left to the filter
include(criterion, v) ==
    LET op == criterion.operator
        c == Comparator(v, criterion.value)
    IN IF op = "==" THEN c = 0
       ELSE IF op = "!=" THEN c # 0
       ELSE IF op = "<=" THEN c <= 0
       ELSE IF op = "<" THEN c < 0
       ELSE IF op = ">=" THEN c >= 0
       ELSE IF op = ">" THEN c > 0
       ELSE IF op = "between"
       THEN bind(RangeInclude(Range(criterion.start, criterion.end, FALSE), v), SomeObject)
       ELSE bind(\E k \in 1..Len(criterion.values) : LooseEq(criterion.values[k], v),
                 SomeObject)

\* getRows() of a query builder once the access path is chosen: matchedRows
\* are the row objects of bestCase.reduce(), unused is bestCase.criteriaUnused
filtered(h, matchedRows, unused) ==
    LET cloned(kept) == [threw |-> FALSE, rows |-> [i \in 1..Len(kept) |-> h[kept[i]].vals]]
    IN IF HOLE \in Elems(matchedRows) THEN [threw |-> TRUE, rows |-> <<>>]
       ELSE cloned(SelectSeq(matchedRows,
                       LAMBDA o : \A k \in 1..Len(unused) :
                                     include(unused[k], h[o].vals[unused[k].columnName])))

\* the access paths: 0 is the table scan, x > 0 the index x
viaPath(h, rws, ixs, crit, x) ==
    IF x = 0 THEN filtered(h, rws, crit)
    ELSE filtered(h, reduce(ixs[x], crit), criteriaUnused(ixs[x], crit))

\* ------------------------------------------------------------ the planner
\* A cost is a Number: the fraction n/d, d = 0 for Infinity (n = 1),
\* -Infinity (n = -1) and NaN (n = 0).
Num(k) == [n |-> k, d |-> 1]
Halves(k2) == [n |-> k2, d |-> 2]
NaN == [n |-> 0, d |-> 0]
Sign(k) == IF k > 0 THEN 1 ELSE IF k < 0 THEN -1 ELSE 0
IsNaN(x) == x.d = 0 /\ x.n = 0
Add(x, y) ==
    IF x.d = 0 /\ y.d = 0 THEN (IF x.n = y.n THEN x ELSE NaN)
    ELSE IF x.d = 0 THEN x
    ELSE IF y.d = 0 THEN y
    ELSE [n |-> x.n * y.d + y.n * x.d, d |-> x.d * y.d]
Neg(x) == [x EXCEPT !.n = -x.n]
Sub(x, y) == Add(x, Neg(y))
Mul(x, y) ==
    IF x.d * y.d = 0 THEN [n |-> Sign(x.n * y.n), d |-> 0]
    ELSE [n |-> x.n * y.n, d |-> x.d * y.d]
Div(x, y) ==
    Mul(x, IF y.n > 0 THEN [n |-> y.d, d |-> y.n]
           ELSE IF y.n < 0 THEN [n |-> -y.d, d |-> -y.n]
           ELSE IF y.d = 0 THEN NaN ELSE [n |-> 1, d |-> 0])
Gt(x, y) ==
    /\ ~IsNaN(x) /\ ~IsNaN(y)
    /\ IF x.d = 0 /\ y.d = 0 THEN x.n > y.n ELSE x.n * y.d > y.n * x.d
Ceil(x) == IF x.d = 0 THEN x ELSE Num(-((-x.n) \div x.d))
Floor(x) == IF x.d = 0 THEN x ELSE Num(x.n \div x.d)
MathMin(x, y) == IF IsNaN(x) \/ IsNaN(y) THEN NaN ELSE IF Gt(x, y) THEN y ELSE x

RECURSIVE shifts(_)
shifts(k) == IF k > 0 THEN 1 + shifts(k \div 2) ELSE 0

\* simpleLog2Cost(size): size > 0 is asked of the Number, size >>= 1 of its
\* 32 bit integer
simpleLog2Cost(size) ==
    IF ~Gt(size, Num(0)) THEN 0
    ELSE 1 + shifts((IF size.d = 0 THEN 0 ELSE size.n \div size.d) \div 2)

RECURSIVE calculateSingleRowCriteriaCost(_)
calculateSingleRowCriteriaCost(crit) ==
    IF crit = <<>> THEN 0
    ELSE 1 + (IF Head(crit).operator = "between" THEN 1
              ELSE IF Head(crit).operator = "in" THEN Len(Head(crit).values) - 1
              ELSE 0)
           + calculateSingleRowCriteriaCost(Tail(crit))

\* One turn of the loop of computeCost over the columns while
\* costIncludesChildren is false and expectedRows > 0: subindex is a
\* sequence of the index. The result is the cost added and the new
\* expectedRows, costIncludesChildren and subindex.
costOfEntries(subindex, criterion, log2Cost, isLast) ==
    LET op == criterion.operator
        total == Num(subindex.total)
        length == Num(Len(subindex.e))
        g(v, ba) == getIndexEntry(subindex, v, ba)
        size(x) == IF x.foundExactMatch THEN Num(x.entry.size) ELSE Num(0)
        one(x) == IF x.foundExactMatch THEN Num(1) ELSE Num(0)
        position(x) == Halves(x.matchedIndex)
        range(expected, count) ==
            [extra |-> Num(0), expectedRows |-> expected, matchedIndexCount |-> count,
             costIncludesChildren |-> TRUE, entry |-> EmptyLevel, found |-> FALSE]
        eq(x) ==
            [extra |-> Num(0), expectedRows |-> size(x), matchedIndexCount |-> one(x),
             costIncludesChildren |-> FALSE, entry |-> x.entry, found |-> x.foundExactMatch]
        ne(x) == range(Sub(total, size(x)), Sub(length, one(x)))
        le(x) == range(Num(x.entry.subtotal), Add(position(x), Num(1)))
        lt(x) == range(Sub(Num(x.entry.subtotal), size(x)), Add(position(x), Num(1)))
        ge(x) == range(Sub(total, Sub(Num(x.entry.subtotal), size(x))),
                       Add(Sub(total, position(x)), one(x)))
        gt(x) == range(Sub(total, Num(x.entry.subtotal)),
                       Add(Sub(total, position(x)), Num(1)))
        between(x, y) ==
            [range(Add(Neg(Num(x.entry.subtotal)), Sub(Num(y.entry.subtotal), size(y))),
                   Add(Neg(position(x)), Add(position(y), one(y))))
               EXCEPT !.extra = Num(log2Cost)]
        several(count) ==
            [range(IF Len(subindex.e) > 0
                   THEN MathMin(total, Ceil(Div(Mul(Num(count), total), length)))
                   ELSE Num(0),
                   Num(count))
               EXCEPT !.extra = Num(log2Cost * (simpleLog2Cost(Num(count)) - 1))]
        turn(r) ==
            [cost |-> Add(r.extra, r.expectedRows),
             expectedRows |-> r.expectedRows,
             costIncludesChildren |-> r.costIncludesChildren,
             subindex |->
                 IF r.costIncludesChildren
                 THEN [real |-> FALSE, level |-> EmptyLevel,
                       length |-> r.matchedIndexCount, total |-> r.expectedRows]
                 ELSE IF r.found /\ ~isLast
                 THEN [real |-> TRUE, level |-> r.entry.data,
                       length |-> Num(Len(r.entry.data.e)),
                       total |-> Num(r.entry.data.total)]
                 ELSE [real |-> FALSE, level |-> EmptyLevel,
                       length |-> Num(IF r.found THEN Len(r.entry.data) ELSE 0),
                       total |-> NaN]]
    IN turn(IF op = "==" THEN eq(g(criterion.value, matchExact))
            ELSE IF op = "!=" THEN ne(g(criterion.value, matchExact))
            ELSE IF op = "<=" THEN le(g(criterion.value, matchBefore))
            ELSE IF op = "<" THEN lt(g(criterion.value, matchBefore))
            ELSE IF op = ">=" THEN ge(g(criterion.value, matchAfter))
            ELSE IF op = ">" THEN gt(g(criterion.value, matchAfter))
            ELSE IF op = "between"
            THEN between(g(criterion.start, matchAfter), g(criterion.end, matchAfter))
            ELSE IF Len(criterion.values) = 1
            THEN eq(g(criterion.values[1], matchExact))
            ELSE several(Len(criterion.values)))

\* One turn of the same loop once costIncludesChildren is true and
\* expectedRows > 0: subindex is {length, total}, an estimate.
costOfEstimate(subindex, criterion, log2Cost) ==
    LET op == criterion.operator
        total == subindex.total
        length == subindex.length
        twoThirds == [n |-> 667, d |-> 1000]
        third == [n |-> 333, d |-> 1000]
        both(x) == [extra |-> Num(0), expectedRows |-> x, matchedIndexCount |-> x]
        several(count) ==
            [extra |-> Num(log2Cost * (simpleLog2Cost(count) - 1)),
             expectedRows |-> IF Gt(total, Num(0))
                              THEN MathMin(total, Div(Mul(count, total), length))
                              ELSE Num(0),
             matchedIndexCount |-> MathMin(count, length)]
        turn(r) ==
            [cost |-> Add(r.extra, r.expectedRows),
             expectedRows |-> r.expectedRows,
             costIncludesChildren |-> TRUE,
             subindex |-> [real |-> FALSE, level |-> EmptyLevel,
                           length |-> MathMin(r.matchedIndexCount, r.expectedRows),
                           total |-> r.expectedRows]]
    IN turn(IF op = "==" THEN both(Ceil(Div(total, length)))
            ELSE IF op = "!=" THEN both(Sub(total, Ceil(Div(total, length))))
            ELSE IF op \in {"<=", ">="}
            THEN [extra |-> Num(0), expectedRows |-> Ceil(Mul(total, twoThirds)),
                  matchedIndexCount |-> Ceil(Mul(length, twoThirds))]
            ELSE IF op \in {"<", ">"}
            THEN [extra |-> Num(0), expectedRows |-> Floor(Mul(total, twoThirds)),
                  matchedIndexCount |-> Floor(Mul(length, twoThirds))]
            ELSE IF op = "between"
            THEN [extra |-> Num(0), expectedRows |-> Ceil(Mul(total, third)),
                  matchedIndexCount |-> Ceil(Mul(length, third))]
            ELSE IF Len(criterion.values) = 1 THEN both(Ceil(Div(total, length)))
            ELSE several(Num(Len(criterion.values))))

\* the loop of computeCost over the columns, from column j on
RECURSIVE costLoop(_, _, _, _)
costLoop(ix, crit, j, st) ==
    LET used == criteriaUsed(ix, crit, 1)
        turned(log2Cost, turn) ==
            costLoop(ix, crit, j + 1,
                     [turn EXCEPT !.cost = Add(Add(st.cost, Num(log2Cost)), @)])
        column(criterion, log2Cost) ==
            turned(log2Cost,
                   IF ~st.costIncludesChildren /\ Gt(st.expectedRows, Num(0))
                   THEN costOfEntries(st.subindex.level, criterion, log2Cost,
                                      j = Len(ix.columns))
                   ELSE IF Gt(st.expectedRows, Num(0))
                   THEN costOfEstimate(st.subindex, criterion, log2Cost)
                   ELSE [cost |-> Num(0), expectedRows |-> st.expectedRows,
                         costIncludesChildren |-> st.costIncludesChildren,
                         subindex |-> st.subindex])
    IN IF j > Len(used) THEN st
       ELSE column(crit[used[j]], simpleLog2Cost(st.subindex.length))

\* computeCost(criteria).cost of the index ix
computeCost(ix, crit) ==
    LET final(st) ==
            Add(st.cost,
                Mul(st.expectedRows,
                    Num(calculateSingleRowCriteriaCost(criteriaUnused(ix, crit)) + 1)))
    IN final(costLoop(ix, crit, 1,
                      [cost |-> Num(0), expectedRows |-> Num(ix.index.total),
                       costIncludesChildren |-> FALSE,
                       subindex |-> [real |-> TRUE, level |-> ix.index,
                                     length |-> Num(Len(ix.index.e)),
                                     total |-> Num(ix.index.total)]]))

\* the access path getRows() of a query builder takes: the table scan (0)
\* unless an index costs less, of the indexes the first of the cheapest
RECURSIVE bestCase(_, _, _, _, _)
bestCase(ixs, crit, x, best, bestCost) ==
    IF x > Len(ixs) THEN best
    ELSE LET better(thisCost) ==
                 IF Gt(bestCost, thisCost) THEN bestCase(ixs, crit, x + 1, x, thisCost)
                 ELSE bestCase(ixs, crit, x + 1, best, bestCost)
         IN better(computeCost(ixs[x], crit))

\* a planner that takes the first index whatever it costs
plannedFirst(rws, ixs, crit) == IF ixs = <<>> THEN 0 ELSE 1

planned(rws, ixs, crit) ==
    bestCase(ixs, crit, 1, 0, Num(Len(rws) * calculateSingleRowCriteriaCost(crit)))

\* findWhere(...).and(...).getRows() with the criteria crit
matchedRows(h, rws, ixs, crit) == viaPath(h, rws, ixs, crit, planned(rws, ixs, crit))

\* the criteria asked of the table
MaxCriteria == 2
QueryVals == {0, 1, NULL, UNDEF}
Comparisons == {"==", "!=", "<=", "<", ">=", ">"}
Criteria ==
    {Criterion(c, op, v) : c \in ColSet, op \in Comparisons, v \in QueryVals}
      \cup {InList(c, vs) : c \in ColSet, vs \in {<<1>>, <<0, 1>>, <<1, NULL>>}}
      \cup {Between(c, b, e) : c \in ColSet, b \in {0, 1}, e \in {1}}
Conjunctions == UNION {[1..k -> Criteria] : k \in 1..MaxCriteria}

\* the queries put to the table between its calls: one criterion of any
\* kind, or a list of MaxList values for "in"
MaxList == 6
WideList == [i \in 1..MaxList |-> IF i = MaxList THEN NULL ELSE i - 1]
Asked == {<<q>> : q \in Criteria \cup {InList(c, WideList) : c \in ColSet}}

\* the same rows, each as many times
SameRows(r1, r2) ==
    /\ r1.threw = r2.threw
    /\ Len(r1.rows) = Len(r2.rows)
    /\ \A v \in Elems(r1.rows) \cup Elems(r2.rows) :
          Cardinality({i \in 1..Len(r1.rows) : r1.rows[i] = v})
            = Cardinality({i \in 1..Len(r2.rows) : r2.rows[i] = v})

\* ============================================================= life cycle
\* drop(): active() is replaced by a function that throws
drop ==
    /\ last' = Done("drop", ~live, {})
    /\ live' = FALSE
    /\ UNCHANGED <<objs, cls, rows, indicies, held, paranoia, verbose, criteria, env, audit>>

\* paranoia(enable) and paranoia(): args is the argument list
paranoiaCall(args) ==
    /\ last' = Done("paranoia", ~live, {})
    /\ paranoia' = IF live /\ Len(args) > 0 THEN args[1] ELSE paranoia
    /\ UNCHANGED <<objs, cls, rows, indicies, held, live, verbose, criteria, env, audit>>

\* verbose(enable) and verbose()
verboseCall(args) ==
    /\ last' = Done("verbose", ~live, {})
    /\ verbose' = IF live /\ Len(args) > 0 THEN args[1] ELSE verbose
    /\ UNCHANGED <<objs, cls, rows, indicies, held, live, paranoia, criteria, env, audit>>

getCount ==
    /\ last' = Done("getCount", ~live, {})
    /\ UNCHANGED <<objs, cls, rows, indicies, held, live, paranoia, verbose, criteria, env,
                   audit>>

validateIndex ==
    /\ last' = Done("validateIndex", ~live \/ validateThrows(indicies), {})
    /\ UNCHANGED <<objs, cls, rows, indicies, held, live, paranoia, verbose, criteria, env,
                   audit>>

\* index() with no argument: the column lists of the indexes, returned
\* before active() is called
indexNames ==
    /\ last' = Done("index()", FALSE, {})
    /\ UNCHANGED <<objs, cls, rows, indicies, held, live, paranoia, verbose, criteria, env,
                   audit>>

\* findWhere(columnName, operator, value): the caller keeps the query
\* builder, criteria is its list
findWhere(criterion) ==
    /\ last' = Done("findWhere", ~live, {})
    /\ criteria' = IF live THEN <<criterion>> ELSE criteria
    /\ UNCHANGED <<objs, cls, rows, indicies, held, live, paranoia, verbose, env, audit>>

\* and(columnName, operator, value) of the query builder the caller keeps
and(criterion) ==
    /\ criteria # <<>>
    /\ Len(criteria) < MaxCriteria
    /\ last' = Done("and", ~live, {})
    /\ criteria' = IF live THEN Append(criteria, criterion) ELSE criteria
    /\ UNCHANGED <<objs, cls, rows, indicies, held, live, paranoia, verbose, env, audit>>

\* getRows() of the query builder the caller keeps
builderGetRows ==
    /\ criteria # <<>>
    /\ LET returned(r) ==
               last' = [Done("builder.getRows", r.threw, {}) EXCEPT !.n = Len(r.rows)]
       IN IF live THEN returned(matchedRows(objs, rows, indicies, criteria))
          ELSE last' = Done("builder.getRows", TRUE, {})
    /\ UNCHANGED <<objs, cls, rows, indicies, held, live, paranoia, verbose, criteria, env,
                   audit>>

\* DataTable.Index.prototype.drop() of the index x of the table: the index
\* leaves this._.indicies, and reading this.columnNames.length throws, since
\* an index has columns and no columnNames, before unwindDependencies is
\* called. n is the number of entries left at the top level of the index.
dropIndex(x) ==
    /\ x \in 1..Len(indicies)
    /\ Heap(objs, cls, rows, RemoveAt(indicies, x), held)
    /\ last' = [Done("Index.drop", TRUE, {}) EXCEPT !.n = Len(indicies[x].index.e)]
    /\ UNCHANGED <<live, paranoia, verbose, criteria, env, audit>>

\* the calls made of one table from its construction on
LifeRow == [a |-> 1, b |-> 0]
NullRow == [a |-> NULL, b |-> 0]
LifeCriteria == {Criterion("a", "==", 1), Criterion("b", "<", 1)}

NextLife ==
    \/ insert(<<LifeRow>>)
    \/ \E columns \in {<<"a">>, <<"b">>} : index(columns)
    \/ indexNames
    \/ \E x \in 1..Len(indicies) : dropIndex(x)
    \/ \E o \in held : remove(<<HeldArg(o)>>)
    \/ \E o \in held : update(<<o>>)
    \/ getRows(0)
    \/ \E o \in held : accessor(o)
    \/ drop
    \/ \E args \in {<<>>, <<TRUE>>, <<FALSE>>} : paranoiaCall(args)
    \/ \E args \in {<<>>, <<TRUE>>} : verboseCall(args)
    \/ getCount
    \/ validateIndex
    \/ \E criterion \in LifeCriteria : findWhere(criterion)
    \/ \E criterion \in LifeCriteria : and(criterion)
    \/ builderGetRows

SpecLife == Init /\ [][NextLife]_vars

\* ------------------------------------------------- rows passed back in
\* the calls that are given row objects the caller got from a table
NextRows ==
    \/ \E rs \in {<<LifeRow>>, <<NullRow, LifeRow>>} : insert(rs)
    \/ index(<<"a">>)
    \/ getRows(0)
    \/ \E t \in OtherIds : otherGetRows(t)
    \/ \E o \in held, rs \in {<<>>, <<LifeRow>>} : insertAgain(o, rs)
    \/ \E o \in held, c \in ColSet, v \in {1, NULL} : assign(o, c, v)
    \/ \E o \in held : update(<<o>>)
    \/ \E o \in held : remove(<<HeldArg(o)>>)
    \/ \E o \in held : release(o)
    \/ \E args \in {<<TRUE>>, <<FALSE>>} : paranoiaCall(args)
    \/ validateIndex

SpecRows == Init /\ [][NextRows]_vars

\* ================================================== names and operators
\* A column name or an operator as the caller writes it is the sequence of
\* its characters; Text is the string.
RECURSIVE Text(_)
Text(chars) == IF chars = <<>> THEN "" ELSE Head(chars) \o Text(Tail(chars))

LowerCase == {"a", "b", "c", "e", "i", "k", "l", "n", "o", "r", "s", "t", "u", "w"}
UpperCase == {"A", "B", "E", "I", "N", "T", "W"}
Digits == {"0", "1"}

\* String.prototype.toLowerCase
toLowerCase(chars) ==
    [i \in 1..Len(chars) |->
        CASE chars[i] = "A" -> "a" [] chars[i] = "B" -> "b" [] chars[i] = "E" -> "e"
          [] chars[i] = "I" -> "i" [] chars[i] = "N" -> "n" [] chars[i] = "T" -> "t"
          [] chars[i] = "W" -> "w" [] OTHER -> chars[i]]

\* /^([a-zA-Z_][a-zA-Z0-9_$]*)$/.test(name)
test(name) ==
    /\ Len(name) >= 1
    /\ name[1] \in LowerCase \cup UpperCase \cup {"_"}
    /\ \A i \in 2..Len(name) : name[i] \in LowerCase \cup UpperCase \cup Digits \cup {"_", "$"}

\* the properties an empty object {} inherits, among the names asked
ObjectPrototype == {"constructor"}

\* checkColumnNames without the test of cNames[name]
checkColumnNamesOnce(names, superSet) ==
    \/ Len(names) = 0
    \/ \E i \in 1..Len(names) :
          \/ ~test(names[i])
          \/ superSet # <<>> /\ Text(names[i]) \notin superSet[1]

\* checkColumnNames(columnNames, superSet): TRUE when it throws. superSet is
\* <<>> when it is not passed, else <<S>> for the set S of the names.
checkColumnNames(names, superSet) ==
    \/ Len(names) = 0
    \/ \E i \in 1..Len(names) :
          \/ ~test(names[i])
          \/ Text(names[i]) \in ObjectPrototype
          \/ \E j \in 1..(i - 1) : names[j] = names[i]
          \/ superSet # <<>> /\ Text(names[i]) \notin superSet[1]

\* checkOperatorAndValue with the pattern /^([=!<>]=?|between|in)$/
checkOperatorAndValueShort(op) ==
    ~ \/ Len(op) = 2 /\ op[1] \in {"=", "!", "<", ">"} /\ op[2] = "="
      \/ Len(op) = 1 /\ op[1] \in {"=", "!", "<", ">"}
      \/ op = <<"b", "e", "t", "w", "e", "e", "n">>
      \/ op = <<"i", "n">>

\* checkOperatorAndValue(op): TRUE when it throws, that is when
\* /^([=!<>]=|[<>]|between|in)$/ does not match op
checkOperatorAndValue(op) ==
    ~ \/ Len(op) = 2 /\ op[1] \in {"=", "!", "<", ">"} /\ op[2] = "="
      \/ Len(op) = 1 /\ op[1] \in {"<", ">"}
      \/ op = <<"b", "e", "t", "w", "e", "e", "n">>
      \/ op = <<"i", "n">>

\* new DataTable(names): the table made is not kept
DataTable(names) ==
    /\ last' = Done("DataTable", checkColumnNames(names, <<>>), {})
    /\ UNCHANGED <<objs, cls, rows, indicies, held, live, paranoia, verbose, criteria, env,
                   audit>>

\* index(names) for any list of names
indexAny(names) ==
    IF live /\ checkColumnNames(names, <<ColSet>>)
    THEN /\ audit.calls < MaxCalls
         /\ audit' = Counted(0, 0)
         /\ last' = Done("index", TRUE, {})
         /\ UNCHANGED <<objs, cls, rows, indicies, held, live, paranoia, verbose, criteria,
                        env>>
    ELSE index([i \in 1..Len(names) |-> Text(names[i])])

\* the criterion {columnName, operator, value} of findWhere and and(): the
\* caller gives a Range for between, an Array for in and a cell value otherwise
criterionOf(name, op) ==
    IF Text(op) = "between" THEN Between(Text(name), 0, 1)
    ELSE IF Text(op) = "in" THEN InList(Text(name), <<1>>)
    ELSE Criterion(Text(name), Text(op), 1)

\* findWhere(name, op, value) for any name and operator
findWhereAny(name, op) ==
    IF live /\ (checkColumnNames(<<name>>, <<ColSet>>)
                  \/ checkOperatorAndValue(toLowerCase(op)))
    THEN /\ last' = Done("findWhere", TRUE, {})
         /\ UNCHANGED <<objs, cls, rows, indicies, held, live, paranoia, verbose, criteria,
                        env, audit>>
    ELSE findWhere(criterionOf(name, toLowerCase(op)))

\* and(name, op, value) of the query builder the caller keeps
andAny(name, op) ==
    IF live /\ (checkColumnNames(<<name>>, <<ColSet>>)
                  \/ checkOperatorAndValue(toLowerCase(op)))
    THEN /\ criteria # <<>>
         /\ last' = Done("and", TRUE, {})
         /\ UNCHANGED <<objs, cls, rows, indicies, held, live, paranoia, verbose, criteria,
                        env, audit>>
    ELSE and(criterionOf(name, toLowerCase(op)))

\* the names, the lists of names and the operators the caller writes
Names ==
    {<<"a">>, <<"b">>, <<"c">>, <<"_", "a", "$">>, <<"1", "a">>, <<"a", " ">>, <<>>,
     <<"c", "o", "n", "s", "t", "r", "u", "c", "t", "o", "r">>}
NameLists ==
    {<<>>, <<<<"a">>>>, <<<<"b">>>>, <<<<"a">>, <<"b">>>>, <<<<"b">>, <<"a">>>>,
     <<<<"a">>, <<"a">>>>, <<<<"a">>, <<"b">>, <<"a">>>>,
     <<<<"c">>>>, <<<<"a">>, <<"c">>>>, <<<<"_", "a", "$">>>>,
     <<<<"1", "a">>>>, <<<<"a">>, <<"a", " ">>>>, <<<<>>>>, <<<<"_">>, <<"a", "$">>, <<"_">>>>,
     <<<<"c", "o", "n", "s", "t", "r", "u", "c", "t", "o", "r">>>>}
Operators ==
    {<<"=", "=">>, <<"!", "=">>, <<"<", "=">>, <<">", "=">>, <<"<">>, <<">">>,
     <<"b", "e", "t", "w", "e", "e", "n">>, <<"i", "n">>,
     <<"I", "N">>, <<"B", "e", "t", "w", "e", "e", "n">>, <<"I", "n">>,
     <<"=">>, <<"=", ">">>, <<"<", ">">>, <<"!">>, <<"=", "=", "=">>, <<"l", "i", "k", "e">>,
     <<"i", "n", " ">>, <<"n", "o", "t", " ", "i", "n">>, <<>>}

\* the calls that name columns
AnOperator == {<<"=", "=">>, <<"l", "i", "k", "e">>}

NextNames ==
    \/ \E names \in NameLists : DataTable(names)
    \/ \E names \in NameLists : indexAny(names)
    \/ \E name \in Names, op \in AnOperator : findWhereAny(name, op)
    \/ \E name \in Names, op \in AnOperator : andAny(name, op)

SpecNames == Init /\ [][NextNames]_vars

\* the calls that name operators
AName == {<<"a">>}

NextOperators ==
    \/ \E name \in AName, op \in Operators : findWhereAny(name, op)
    \/ \E name \in AName, op \in Operators : andAny(name, op)

SpecOperators == Init /\ [][NextOperators]_vars

\* ------------------------------------------------------ pure functions
\* the values compared: numbers below, at and above zero, null, undefined
Values == {-1, 0, 1, NULL, UNDEF}
Bounds == 0..2
Probes == -1..3

\* DataTable.Comparator(l, r), called by the caller
compare(l, r) ==
    /\ last' = [op |-> "Comparator", args |-> <<l, r>>, result |-> Comparator(l, r)]
    /\ UNCHANGED <<objs, cls, rows, indicies, held, live, paranoia, verbose, criteria,
                   env, audit>>

\* new DataTable.Range(begin, end, exclusive), then include(v) and length
newRange(begin, end, exclusive, v) ==
    /\ LET range == Range(begin, end, exclusive)
       IN last' = [op |-> "Range", args |-> <<begin, end, exclusive, v>>,
                   result |-> [include |-> RangeInclude(range, v),
                               length |-> RangeLength(range)]]
    /\ UNCHANGED <<objs, cls, rows, indicies, held, live, paranoia, verbose, criteria,
                   env, audit>>

\* the sequences of up to MaxKeys keys that the comparator sorts strictly,
\* and the values looked for
MaxKeys == 3
Keys == {-1, 0, 2, NULL}
Sorted ==
    {<<>>} \cup {s \in SeqsUpTo(Keys, MaxKeys) :
                    \A i, j \in 1..Len(s) : i < j => Comparator(s[i], s[j]) < 0}
Sought == Probes \cup {NULL, UNDEF}

\* index.binarySearch(entries, value, compareValues) on the entries with the
\* values keys; the result is twice what the code returns
search(keys, value) ==
    /\ last' = [op |-> "binarySearch", args |-> <<keys, value>>,
                result |-> binarySearch([i \in 1..Len(keys) |-> [value |-> keys[i]]],
                                        value)]
    /\ UNCHANGED <<objs, cls, rows, indicies, held, live, paranoia, verbose, criteria,
                   env, audit>>

NextPure ==
    \/ \E l, r \in Values : compare(l, r)
    \/ \E keys \in Sorted, value \in Sought : search(keys, value)
    \/ \E begin, end \in Bounds, exclusive \in BOOLEAN, v \in Probes :
          newRange(begin, end, exclusive, v)

SpecPure == Init /\ [][NextPure]_vars

\* ---------------------------------------------------------------- queries
\* tables of rows with numbers in both columns, with any of the indexes
QueryRows == {[a |-> x, b |-> y] : x \in {0, 2}, y \in {0, 1}}

NextQuery ==
    \/ \E rs \in SeqsUpTo(QueryRows, MaxBatch) : insert(rs)
    \/ \E columns \in IndexColumns : index(columns)
    \/ \E p \in 0..(MaxRows - 1) : remove(<<FreshArg(p)>>)

SpecQuery == Init /\ [][NextQuery]_vars

\* ------------------------------------------------ rows removed before
\* remove given clones whose row was removed before, or one clone twice
NextStale ==
    \/ \E rs \in {<<LifeRow>>, <<LifeRow, LifeRow>>, <<LifeRow, OtherRow>>} : insert(rs)
    \/ index(<<"a">>)
    \/ \E p \in 0..(MaxRows - 1) : getRows(p)
    \/ \E p \in 0..(MaxRows - 1) : remove(<<FreshArg(p)>>)
    \/ \E o \in held, n \in 1..2 : removeAny([i \in 1..n |-> HeldArg(o)])
    \/ \E o \in held : release(o)

SpecStale == Init /\ [][NextStale]_vars

\* ================================================================ claims
\* the sequences of an index: the top level and every nested one
RECURSIVE LevelsOf(_, _)
LevelsOf(level, ncols) ==
    {[lv |-> level, leaf |-> ncols = 1]} \cup
    (IF ncols > 1
     THEN UNION {LevelsOf(level.e[i].data, ncols - 1) : i \in 1..Len(level.e)}
     ELSE {})

AllLevels == UNION {LevelsOf(indicies[i].index, Len(indicies[i].columns)) :
                       i \in 1..Len(indicies)}

\* the last call was an insert, update or remove that returned normally
Settled == last.op \in {"insert", "update", "remove"} /\ ~last.threw

\* C1: on a live table whose removes were each given clones of distinct rows
\* of the table, getCount() is the number of rows inserted minus the number
\* of rows removed.
C1_RowCount == live => Len(rows) = audit.inserted - audit.removed

\* the comparator puts l before r, asked with either value first
Before(l, r) == Comparator(l, r) < 0 \/ Comparator(r, l) > 0

\* C3: after every insert, update and remove the entries of every sequence of
\* every index are strictly increasing under the comparator and no two of
\* them have equal values, absent cells included.
C3_StrictlySorted ==
    Settled =>
        \A l \in AllLevels : \A i, j \in 1..Len(l.lv.e) :
            i < j => /\ Comparator(l.lv.e[i].value, l.lv.e[j].value) # 0
                     /\ Before(l.lv.e[i].value, l.lv.e[j].value)

\* C4: after every insert, update and remove the counters of every index are
\* consistent: size >= 1, a leaf size is the length of its row list, a
\* non-leaf size is the total of its nested sequence, each subtotal is the
\* inclusive prefix sum of the sizes and each total is the sum of the sizes.
C4_Counters ==
    Settled =>
        \A l \in AllLevels :
            /\ \A i \in 1..Len(l.lv.e) :
                  /\ l.lv.e[i].size >= 1
                  /\ l.lv.e[i].size = IF l.leaf THEN Len(l.lv.e[i].data)
                                      ELSE l.lv.e[i].data.total
                  /\ l.lv.e[i].subtotal =
                        SumSeq([k \in 1..i |-> l.lv.e[k].size])
            /\ l.lv.total = SumSeq([k \in 1..Len(l.lv.e) |-> l.lv.e[k].size])

\* C5: after every insert, update and remove the row objects in the leaf
\* lists of every index are exactly the canonical row objects of the row
\* vector, each of them in exactly one leaf list.
C5_LeafRows ==
    Settled =>
        \A x \in 1..Len(indicies) :
            LET leaves == LeafSeq(indicies[x].index, Len(indicies[x].columns), 1)
            IN /\ Elems(leaves) = Elems(rows)
               /\ Len(leaves) = Len(rows)

\* an index as its entries and counters, each leaf list as the cell values
\* of its rows
RECURSIVE Shape(_, _, _)
Shape(h, level, ncols) ==
    [level EXCEPT !.e = [i \in 1..Len(level.e) |->
        [level.e[i] EXCEPT !.data =
            IF ncols > 1 THEN Shape(h, level.e[i].data, ncols - 1)
            ELSE [j \in 1..Len(level.e[i].data) |-> h[level.e[i].data[j]].vals]]]]

\* the indexes whose column list contains a changed column
Affected(changed) ==
    {i \in 1..Len(indicies) : Elems(indicies[i].columns) \cap changed # {}}

\* C8: getRows() after insert(r) has a row with the cell values of each
\* element of r, and remove(insert(r)) on a table that was empty leaves no
\* rows and every index empty with total 0.
C8_RoundTrip ==
    [][/\ \A rs \in SeqsUpTo(Rows, MaxBatch) :
             insert(rs) =>
                 /\ HOLE \notin Elems(rows')
                 /\ \A i \in 1..Len(rs) :
                       \E p \in 1..Len(rows') : objs'[rows'[p]].vals = rs[i]
       /\ ( /\ last.op = "insert" /\ ~last.threw
            /\ last.n = Len(rows) /\ last.n > 0
            /\ remove([i \in 1..Len(rows) |-> FreshArg(i - 1)]) )
          => /\ ~last'.threw
             /\ rows' = <<>>
             /\ \A x \in 1..Len(indicies') :
                   indicies'[x].index = EmptyLevel]_vars

\* C9: an update of rows that equal their canonical snapshots runs no index
\* operation and changes nothing; an update that changes columns runs the
\* merge-remove and the merge-add on exactly the indexes whose column list
\* has a changed column and leaves the structure of the others as it was.
C9_UpdateLocality ==
    [][\A args \in SeqsUpTo(held, MaxBatch) :
          (update(args) /\ live /\ \A i \in 1..Len(args) : InTable(objs[args[i]].fn)) =>
              IF last'.changed = {}
              THEN last'.touched = {} /\ UNCHANGED <<objs, cls, rows, indicies, held>>
              ELSE /\ last'.touched = Affected(last'.changed)
                   /\ \A x \in 1..Len(indicies) :
                         x \notin Affected(last'.changed) =>
                             Shape(objs', indicies'[x].index, Len(indicies[x].columns))
                               = Shape(objs, indicies[x].index, Len(indicies[x].columns))]_vars

\* C2: in every state reached by inserts, updates and removes and for every
\* conjunction of criteria, findWhere(...).and(...).getRows() returns the
\* same rows, each as many times, by the table scan and by every index.
C2_IndexEquivalence ==
    \A crit \in Conjunctions : \A x \in 1..Len(indicies) :
        SameRows(viaPath(objs, rows, indicies, crit, 0),
                 viaPath(objs, rows, indicies, crit, x))

\* what the caller can read of a table with the heap h, the row vector rws
\* and the indexes ixs: getRows(), getCount() and findWhere(...).getRows()
\* for each of the queries
Answers(h, rws, ixs) ==
    [getRows |-> filtered(h, rws, <<>>),
     getCount |-> Len(rws),
     found |-> [q \in Asked |-> matchedRows(h, rws, ixs, q)]]

\* C6: a step in which the caller changes a field of a row object that the
\* table returned, without passing it to update or remove, changes no
\* result of getRows(), getCount() and findWhere(...).getRows().
C6_CloneIsolation ==
    [][(\E o \in held, c \in ColSet : \E v \in CellVals(c) : assign(o, c, v))
          => Answers(objs', rows', indicies') = Answers(objs, rows, indicies)]_vars

\* the cell value v meets the criterion
Matches(criterion, v) ==
    LET op == criterion.operator
        c == Comparator(v, criterion.value)
    IN IF op = "==" THEN c = 0
       ELSE IF op = "!=" THEN c # 0
       ELSE IF op = "<=" THEN c <= 0
       ELSE IF op = "<" THEN c < 0
       ELSE IF op = ">=" THEN c >= 0
       ELSE IF op = ">" THEN c > 0
       ELSE IF op = "between" THEN JsGe(v, criterion.start) /\ JsGe(criterion.end, v)
       ELSE \E k \in 1..Len(criterion.values) : LooseEq(criterion.values[k], v)

\* C7: after update(c) returns normally for a clone c of a row of the table
\* in which a column K was changed, getRows() has the new values at the place
\* of the row and findWhere(K, ...).getRows(), by the access path the planner
\* selects, returns a row with the new values exactly when the new value of
\* K meets the criterion.
C7_UpdateVisible ==
    [][\A args \in SeqsUpTo(held, MaxBatch) :
          ( /\ update(args) /\ live /\ ~last'.threw
            /\ \A i, j \in 1..Len(args) : i # j => args[i] # args[j]
            /\ \A i \in 1..Len(args) : InTable(objs[args[i]].fn) ) =>
              \A i \in 1..Len(args) :
                  LET new == objs[args[i]].vals
                      p == cls[objs[args[i]].fn].index + 1
                  IN \A K \in changedColumnsOf(args[i]) :
                        /\ rows'[p] # HOLE /\ objs'[rows'[p]].vals = new
                        /\ \A q \in Asked :
                              q[1].columnName = K =>
                                  /\ ~matchedRows(objs', rows', indicies', q).threw
                                  /\ new \in Elems(matchedRows(objs', rows', indicies', q).rows)
                                        <=> Matches(q[1], new[K])]_vars

\* C10: a dropped table stays dropped, and every call made of a dropped
\* table, of a query builder of it and of the $ of a clone of its rows fails
\* with an error.
C10_Dropped == [][~live => (~live' /\ last'.threw)]_vars

\* the column lists of the indexes ixs, in order
ColumnLists(ixs) == [i \in 1..Len(ixs) |-> ixs[i].columns]

\* C11: Index.drop() on a live index completes, takes the index out of the
\* index list of its table and leaves no entry in its structure.
C11_IndexDrop ==
    [][\A x \in 1..Len(indicies) :
          dropIndex(x) =>
              /\ ~last'.threw
              /\ last'.n = 0
              /\ ColumnLists(indicies') = RemoveAt(ColumnLists(indicies), x)]_vars


\* the name matches [A-Za-z_][A-Za-z0-9_$]*
Pattern(name) ==
    /\ name # <<>>
    /\ Head(name) \in LowerCase \cup UpperCase \cup {"_"}
    /\ Elems(Tail(name)) \subseteq LowerCase \cup UpperCase \cup Digits \cup {"_", "$"}

\* the list of names is empty, has a duplicate or has a name off the pattern
InvalidColumns(names) ==
    \/ names = <<>>
    \/ \E i, j \in 1..Len(names) : i # j /\ names[i] = names[j]
    \/ \E i \in 1..Len(names) : ~Pattern(names[i])

\* a name of the list is not a column of the table
NonMember(names) == \E i \in 1..Len(names) : Text(names[i]) \notin ColSet

\* C12: new DataTable(names) fails when names is empty, has a duplicate or a
\* name off the pattern; index(names), findWhere and and() fail in these
\* cases and when a name is not a column of the table, and a failed call
\* leaves the indexes and the criteria of the builder as they were.
C12_InvalidColumns ==
    [][/\ last'.op = "DataTable" =>
             \A names \in NameLists :
                 (InvalidColumns(names) /\ DataTable(names)) => last'.threw
       /\ (live /\ last'.op = "index") =>
             \A names \in NameLists :
                 ((InvalidColumns(names) \/ NonMember(names)) /\ indexAny(names))
                     => (last'.threw /\ indicies' = indicies)
       /\ (live /\ last'.op \in {"findWhere", "and"}) =>
             \A name \in Names, op \in AnOperator :
                 ( /\ ~Pattern(name) \/ NonMember(<<name>>)
                   /\ findWhereAny(name, op) \/ andAny(name, op) )
                     => (last'.threw /\ criteria' = criteria)]_vars

\* index(names) has failed on a live table that has an index and whose
\* caller keeps a query builder
C12_Witness ==
    /\ live /\ last.op = "index" /\ last.threw
    /\ indicies # <<>> /\ criteria # <<>>


\* the operators of the grammar
Grammar == {"<", "<=", "==", "!=", ">=", ">", "between", "in"}

\* C18: findWhere and and() take an operator exactly when its lower-case
\* form is one of <, <=, ==, !=, >=, >, between and in; with any other
\* operator the call fails and the query keeps the criteria it had.
C18_Operators ==
    [][(live /\ last'.op \in {"findWhere", "and"}) =>
          \A name \in AName, op \in Operators :
              (findWhereAny(name, op) \/ andAny(name, op)) =>
                  /\ last'.threw <=> Text(toLowerCase(op)) \notin Grammar
                  /\ last'.threw => criteria' = criteria
                  /\ ~last'.threw =>
                        criteria'[Len(criteria')].operator = Text(toLowerCase(op))]_vars

\* and() has failed on an operator off the grammar and the query builder
\* keeps its one criterion
C18_Witness ==
    /\ live /\ last.op = "and" /\ last.threw
    /\ Len(criteria) = 1


\* C13: index(columns) with the column list of an index the table has
\* returns that index and leaves the index list and the structure of every
\* index as they were, and after every index(columns) no two indexes of the
\* table have the same column list.
C13_SameIndex ==
    [][\A columns \in IndexColumns :
          (live /\ index(columns)) =>
              /\ (\E i \in 1..Len(indicies) : indicies[i].columns = columns) =>
                     (~last'.threw /\ indicies' = indicies)
              /\ \A i, j \in 1..Len(indicies') :
                     i # j => indicies'[i].columns # indicies'[j].columns]_vars

\* index(columns) has returned an index the table had, with rows in it
C13_Witness ==
    /\ live /\ last.op = "index" /\ ~last.threw /\ last.touched = {}
    /\ indicies # <<>> /\ rows # <<>>


\* C14: insert given a row object that already carries a $ (a row obtained
\* from a table) ignores that row: the call returns normally, the other rows
\* of the list are inserted, and the row count and every index grow by
\* exactly the other rows, with or without indexes.
C14_InsertAgain ==
    [][\A o \in held, rs \in {<<>>, <<LifeRow>>} :
          (live /\ insertAgain(o, rs)) =>
              /\ ~last'.threw
              /\ Len(rows') = Len(rows) + Len(rs)
              /\ \A i \in 1..Len(indicies) :
                    indicies'[i].index.total = indicies[i].index.total + Len(rs)]_vars

\* C15: two distinct tables have distinct identity tokens whenever each was
\* made, so update and remove of this table, given a row object obtained from
\* another table, fail with the wrong-table error and change neither the row
\* vector nor any index.
C15_WrongTable ==
    [][\A o \in held :
          ( /\ live
            /\ objs[o].fn # NOFN
            /\ cls[objs[o].fn].table = "other"
            /\ update(<<o>>) \/ remove(<<HeldArg(o)>>) )
              => (last'.threw /\ rows' = rows /\ indicies' = indicies)]_vars

\* C16: Comparator returns -1, 0 or +1 and orders the values with the absent
\* ones (null, undefined) greatest: 0 when l and r are equal or both absent,
\* +1 when l is absent and r is not, -1 when l is not absent and r is, and
\* Comparator(l, r) = -Comparator(r, l).
C16_TotalOrder ==
    last.op = "Comparator" =>
        LET l == last.args[1]
            r == last.args[2]
            c == last.result
        IN /\ c \in {-1, 0, 1}
           /\ (l = r \/ (IsAbsent(l) /\ IsAbsent(r))) => c = 0
           /\ (IsAbsent(l) /\ ~IsAbsent(r)) => c = 1
           /\ (~IsAbsent(l) /\ IsAbsent(r)) => c = -1
           /\ c = -Comparator(r, l)

\* C17: a Range built from (start, end, exclusive) includes v exactly when
\* v >= start and v < end (exclusive) or v <= end (not exclusive); its length
\* is end - start + 1; an exclusive range does not include its end.
C17_Range ==
    last.op = "Range" =>
        LET start == last.args[1]
            end == last.args[2]
            exclusive == last.args[3]
            v == last.args[4]
        IN /\ last.result.include
                 = (v >= start /\ IF exclusive THEN v < end ELSE v <= end)
           /\ last.result.length = end - start + 1
           /\ (exclusive /\ v = end) => ~last.result.include

\* the access paths a query on the column c can be answered by: the table
\* scan and every index whose first column is c
PathsOn(c) == {0} \cup {x \in 1..Len(indicies) : indicies[x].columns[1] = c}

\* the answer holds the rows with the value v in the column c as often as the
\* table does (wanted) or not at all
Returned(answer, c, v, wanted) ==
    /\ ~answer.threw
    /\ Cardinality({i \in 1..Len(answer.rows) : answer.rows[i][c] = v})
         = IF wanted THEN Cardinality({i \in 1..Len(rows) : objs[rows[i]].vals[c] = v})
           ELSE 0

\* C19: findWhere(col, 'between', Range(a, b)).getRows() returns exactly the
\* rows whose value v in col has a <= v <= b, by the table scan and through
\* an index whose first column is col.
C19_Between ==
    (live /\ HOLE \notin Elems(rows)) =>
        \A b \in {0, 1}, e \in {1}, x \in PathsOn("a"), v \in {0, 1} :
            Returned(viaPath(objs, rows, indicies, <<Between("a", b, e)>>, x),
                     "a", v, b <= v /\ v <= e)

\* C20: findWhere(col, 'in', S).getRows(), S an Array or a Set, returns
\* exactly the rows whose value in col is a member of S, each row once even
\* when S repeats a value, by the table scan and through an index.
C20_In ==
    (live /\ HOLE \notin Elems(rows)) =>
        \A S \in {<<1>>, <<1, 1>>, <<0, 1>>, <<0>>}, x \in PathsOn("a"), v \in {0, 1} :
            Returned(viaPath(objs, rows, indicies, <<InList("a", S)>>, x),
                     "a", v, v \in Elems(S))

\* the queries whose plan is looked at: one criterion of any kind, and two
\* comparisons on any columns
OneCriterion ==
    {Criterion(c, op, v) : c \in ColSet, op \in Comparisons, v \in Probes}
      \cup {InList(c, vs) : c \in ColSet, vs \in {<<0>>, <<0, 2>>}}
      \cup {Between(c, 0, e) : c \in ColSet, e \in {1, 2}}
Few == {Criterion(c, op, v) : c \in ColSet, op \in {"==", "<", ">="}, v \in {0, 1}}
Plans == {<<q>> : q \in OneCriterion} \cup {<<p, q>> : p, q \in Few}

\* the cost of the access path p for the criteria crit: 0 is the table scan
CostOf(crit, p) ==
    IF p = 0 THEN Num(Len(rows) * calculateSingleRowCriteriaCost(crit))
    ELSE computeCost(indicies[p], crit)

\* C21: the access path getRows takes is the first of the cheapest among the
\* table scan and the indexes in the order of their creation: its cost is
\* not above that of the scan nor of any index, every path before it costs
\* strictly more, and so the scan is taken on a tie.
C21_Planner ==
    (live /\ HOLE \notin Elems(rows)) =>
        \A crit \in Plans :
            LET first(x, costs) ==
                    /\ ~Gt(costs[x], costs[0])
                    /\ \A p \in 0..Len(indicies) : ~Gt(costs[x], costs[p])
                    /\ \A p \in 0..(x - 1) : Gt(costs[p], costs[x])
            IN first(planned(rows, indicies, crit),
                     [p \in 0..Len(indicies) |-> CostOf(crit, p)])

\* a table with two indexes of which the second is the path of a query and
\* the first that of another
C21_Witness ==
    /\ live /\ Len(indicies) = 2 /\ Len(rows) = 2
    /\ \E crit \in Plans : planned(rows, indicies, crit) = 2
    /\ \E crit \in Plans : planned(rows, indicies, crit) = 1
    /\ \E crit \in Plans : planned(rows, indicies, crit) = 0

\* the index x breaks one of the invariants of an index: entries out of
\* order or twice, a size of 0, a leaf size that is not the length of its row
\* list, a size that is not the total of the nested sequence, a wrong
\* subtotal or total, or leaf rows that are not the rows of the row vector
Broken(x) ==
    LET ncols == Len(indicies[x].columns)
        leaves == LeafSeq(indicies[x].index, ncols, 1)
    IN \/ \E l \in LevelsOf(indicies[x].index, ncols) :
            \/ \E i, j \in 1..Len(l.lv.e) :
                  i < j /\ ~Before(l.lv.e[i].value, l.lv.e[j].value)
            \/ \E i \in 1..Len(l.lv.e) :
                  \/ l.lv.e[i].size = 0
                  \/ l.lv.e[i].size # (IF l.leaf THEN Len(l.lv.e[i].data)
                                       ELSE l.lv.e[i].data.total)
                  \/ l.lv.e[i].subtotal # SumSeq([k \in 1..i |-> l.lv.e[k].size])
            \/ l.lv.total # SumSeq([k \in 1..Len(l.lv.e) |-> l.lv.e[k].size])
       \/ Elems(leaves) # Elems(rows)
       \/ Len(leaves) # Len(rows)

\* C23: validateIndex fails with an error whenever an index of the table
\* breaks one of the invariants of an index.
C23_Validate ==
    [][(live /\ validateIndex /\ \E x \in 1..Len(indicies) : Broken(x))
          => last'.threw]_vars

\* C22: with paranoia on, every insert, update and remove that changes data
\* validates all the indexes of the table before it returns: the call fails
\* when validateIndex does not pass on the indexes it leaves.
C22_Paranoia ==
    [][( /\ paranoia /\ live
         /\ last'.op \in {"insert", "update", "remove"}
         /\ rows' # rows \/ objs' # objs \/ indicies' # indicies
         /\ validateThrows(indicies') ) => last'.threw]_vars

\* the rows of the table that meet every criterion of crit, as getRows()
\* returns rows
Exactly(crit) ==
    LET kept == SelectSeq(rows, LAMBDA o : \A k \in 1..Len(crit) :
                                  Matches(crit[k], objs[o].vals[crit[k].columnName]))
    IN [threw |-> FALSE, rows |-> [i \in 1..Len(kept) |-> objs[kept[i]].vals]]

\* C24: a query (col != v) answered through an index on col returns exactly
\* the rows whose value in col differs from v, whether v is a key of the
\* index or lies below, between or above its keys.
C24_NotEqual ==
    (live /\ HOLE \notin Elems(rows)) =>
        \A v \in Probes : \A x \in PathsOn("a") \ {0} :
            SameRows(viaPath(objs, rows, indicies, <<Criterion("a", "!=", v)>>, x),
                     Exactly(<<Criterion("a", "!=", v)>>))

Ordered == {"==", "<", "<=", ">=", ">"}

Firsts == {Criterion(c, op, v) : c \in ColSet, op \in Ordered, v \in {0, 1}}
Seconds == {Criterion(c, op, v) : c \in ColSet, op \in Ordered, v \in {1, 2}}

C27_BinarySearch ==
    last.op = "binarySearch" =>
        LET keys == last.args[1]
            value == last.args[2]
            n == Len(keys)
            hit == {i \in 1..n : Comparator(keys[i], value) = 0}
            k == Cardinality({i \in 1..n : Comparator(keys[i], value) < 0})
        IN /\ hit # {} => \E i \in hit : last.result = 2 * (i - 1)
           /\ hit = {} => last.result = IF k = 0 THEN -2
                                        ELSE IF k = n THEN 2 * n ELSE 2 * k - 1
           /\ last.result >= -2 /\ last.result <= 2 * n

\* a value looked for between the second and the third of three keys
C27_Witness ==
    /\ last.op = "binarySearch"
    /\ Len(last.args[1]) = 3
    /\ last.result = 3

\* every place p of the row vector rws holds a row, no row twice, and the
\* closure of the row holds the position p and the row itself
Positions(h, c, rws) ==
    /\ HOLE \notin Elems(rws)
    /\ \A p \in 1..Len(rws) :
          /\ h[rws[p]].fn # NOFN
          /\ c[h[rws[p]].fn].index = p - 1
          /\ c[h[rws[p]].fn].row = rws[p]
    /\ \A p, q \in 1..Len(rws) : p # q => rws[p] # rws[q]

\* the number of rows of rws with the cell values vals
CountOf(h, rws, vals) == Cardinality({p \in 1..Len(rws) : h[rws[p]].vals = vals})

RECURSIVE SameIndex(_, _, _)
SameIndex(level, built, ncols) ==
    /\ Len(level.e) = Len(built.e)
    /\ level.total = built.total
    /\ \A i \in 1..Len(level.e) :
          /\ level.e[i].value = built.e[i].value
          /\ level.e[i].size = built.e[i].size
          /\ level.e[i].subtotal = built.e[i].subtotal
          /\ IF ncols > 1 THEN SameIndex(level.e[i].data, built.e[i].data, ncols - 1)
             ELSE Elems(level.e[i].data)
                    = {built.e[i].data[j].oid : j \in 1..Len(built.e[i].data)}

\* every index of ixs is the bulk-built index of the rows rws
BulkSame(h, rws, ixs) ==
    /\ HOLE \notin Elems(rws)
    /\ \A x \in 1..Len(ixs) :
          SameIndex(ixs[x].index,
                    buildIndex([i \in 1..Len(rws) |-> [oid |-> rws[i], vals |-> h[rws[i]].vals,
                                                        fn |-> h[rws[i]].fn]],
                               ixs[x].columns),
                    Len(ixs[x].columns))

\* C29: after any sequence of inserts and removes that succeeded, every index
\* kept by rowsAdded and rowsRemoved is the index buildIndex makes of the
\* rows now in the table: the same keys in the same order, the same size,
\* subtotal and total at every level, the same rows in every leaf
C29_BulkEquivalence ==
    (live /\ last.op \in {"insert", "remove", "index"} /\ ~last.threw)
        => BulkSame(objs, rows, indicies)

\* the clone o, given n times in one call, is one remove has no row for: its
\* row was removed before, or it is given twice
Stale(o, n) ==
    /\ objs[o].fn # NOFN
    /\ ~checkTableIdentity(objs[o].fn)
    /\ ~InTable(objs[o].fn) \/ n = 2

\* C30: remove given a clone of a row removed before, or the same clone
\* twice in one call, either fails or leaves the row vector and every index
\* as they were
C30_StaleRemove ==
    [][\A o \in held, n \in 1..2 :
          (live /\ Stale(o, n) /\ removeAny([i \in 1..n |-> HeldArg(o)]))
              => (last'.threw \/ (rows' = rows /\ indicies' = indicies))]_vars

====
